---- MODULE Spec2Model ----
(***************************************************************************)
(* The ride-request view of GoTogether (src/src/pages/RideRequests.jsx):   *)
(* the status normalizer of fetchRideRequests / refreshRideRequests, the   *)
(* targeted re-fetch, the polling timers and the cancel handler, as a      *)
(* state machine of a React function component.                            *)
(*                                                                         *)
(* A function of the component body closes over the state values of the    *)
(* render that created it (loading, refreshing, requests, user are consts  *)
(* of that render).  Every asynchronous operation and every timer callback *)
(* therefore carries the values its closure captured next to the state of  *)
(* the component, which holds the values of the latest render.             *)
(***************************************************************************)
EXTENDS Naturals, Sequences, FiniteSets, TLC

(***************************************************************************)
(* JavaScript values.  undefined (an absent field) is the string Undef;    *)
(* the empty string is "".  A timestamp field is 0 when absent (0 and      *)
(* undefined are both falsy in  a || b || c || 0 ) and the epoch value of  *)
(* the date otherwise.                                                     *)
(***************************************************************************)
Undef == "undefined"

Truthy(v) == v \notin {Undef, ""}

\* a || b
Or(a, b) == IF Truthy(a) THEN a ELSE b

\* n || m on timestamps
OrNum(n, m) == IF n # 0 THEN n ELSE m

(***************************************************************************)
(* A user reference p.user of a passenger entry: a plain id string, an     *)
(* object with id and/or _id, or absent.                                   *)
(***************************************************************************)
StrRef(s) == [kind |-> "string", id |-> s, _id |-> Undef]
ObjRef(i, j) == [kind |-> "object", id |-> i, _id |-> j]
NoRef == [kind |-> "undefined", id |-> Undef, _id |-> Undef]

\* p.user?.id and p.user?._id : a property read on a string gives undefined
PropId(ref) == IF ref.kind = "object" THEN ref.id ELSE Undef
Prop_Id(ref) == IF ref.kind = "object" THEN ref._id ELSE Undef

\* typeof p.user === 'string' ? p.user : (p.user?.id || p.user?._id)
passengerId(p) ==
  IF p.user.kind = "string" THEN p.user.id
  ELSE Or(PropId(p.user), Prop_Id(p.user))

\* the predicate of request.passengers.find(...)
MatchOwn(p, user) ==
  passengerId(p) = user.id \/ passengerId(p) = user._id

\* the predicate of request.ride.passengers.find(...)
MatchRide(p, user) ==
  \/ (IF p.user.kind = "string" THEN p.user.id = user.id
      ELSE p.user.kind = "undefined" /\ user.id = Undef)
  \/ (p.user.kind # "undefined" /\ PropId(p.user) = user.id)
  \/ (p.user.kind # "undefined" /\ Prop_Id(p.user) = user.id)

\* Array.prototype.find: the index of the first entry satisfying Test, 0 if none
FindIndex(s, Test(_)) ==
  IF \E i \in 1..Len(s) : Test(s[i])
  THEN CHOOSE i \in 1..Len(s) : Test(s[i]) /\ \A j \in 1..(i-1) : ~Test(s[j])
  ELSE 0

\* const userPassenger = list.find(...); userPassenger && userPassenger.status
FoundStatus(s, Test(_)) ==
  IF FindIndex(s, Test) # 0 THEN s[FindIndex(s, Test)].status ELSE Undef

OwnStatus(request, user) ==
  LET T(p) == MatchOwn(p, user) IN FoundStatus(request.passengers, T)

RideStatus(request, user) ==
  LET T(p) == MatchRide(p, user) IN
  IF request.ride.present THEN FoundStatus(request.ride.passengers, T) ELSE Undef

\* request.ride && (request.ride.id || request.ride._id)
ResolvableRideId(request) ==
  IF request.ride.present THEN Or(request.ride.id, request.ride._id) ELSE Undef

\* fetchStatus with the direct status consulted before the pre-resolved one
fetchStatus_DirectFirst(request, user) ==
  IF Truthy(request.status) /\ request.status # "pending" THEN request.status
  ELSE IF Truthy(request.userRequestStatus) THEN request.userRequestStatus
  ELSE IF Truthy(OwnStatus(request, user)) THEN OwnStatus(request, user)
  ELSE IF Truthy(RideStatus(request, user)) THEN RideStatus(request, user)
  ELSE "pending"

(***************************************************************************)
(* The normalizer of fetchRideRequests (the callback of userRequests.map). *)
(* fetchStatus is the status of the object it returns, fetchSchedule the   *)
(* ride id handed to  setTimeout(() => refreshSingleRideStatus(rideId))    *)
(* (Undef when no timeout is set).                                         *)
(***************************************************************************)
fetchStatus(request, user) ==
  IF Truthy(request.userRequestStatus) THEN request.userRequestStatus
  ELSE IF Truthy(request.status) /\ request.status # "pending" THEN request.status
  ELSE IF Truthy(OwnStatus(request, user)) THEN OwnStatus(request, user)
  ELSE IF Truthy(RideStatus(request, user)) THEN RideStatus(request, user)
  ELSE "pending"

fetchResolved(request, user) ==
  \/ Truthy(request.userRequestStatus)
  \/ (Truthy(request.status) /\ request.status # "pending")
  \/ Truthy(OwnStatus(request, user))
  \/ Truthy(RideStatus(request, user))

\* fetchSchedule that sets the timeout for every request with a ride id
fetchSchedule_Always(request, user) == ResolvableRideId(request)

fetchSchedule(request, user) ==
  IF ~fetchResolved(request, user) /\ Truthy(ResolvableRideId(request))
  THEN ResolvableRideId(request) ELSE Undef

\* fetchProcess returning the resolved status without the fields it was resolved from
fetchProcess_Resolved(request, user) ==
  [request EXCEPT !.status = fetchStatus(request, user), !.passengers = <<>>,
                  !.userRequestStatus = Undef]

\* fetchProcess returning a new object of id, status and ride only
fetchProcess_Stripped(request, user) ==
  [request EXCEPT !.status = fetchStatus(request, user), !.passengers = <<>>]

fetchProcess(request, user) ==
  [request EXCEPT !.status = fetchStatus(request, user)]

(***************************************************************************)
(* The normalizer of refreshRideRequests: the same steps, written a second *)
(* time in the source.                                                     *)
(***************************************************************************)
\* refreshStatus with the passenger lists consulted before the direct status
refreshStatus_PassengersFirst(request, user) ==
  IF Truthy(request.userRequestStatus) THEN request.userRequestStatus
  ELSE IF Truthy(OwnStatus(request, user)) THEN OwnStatus(request, user)
  ELSE IF Truthy(RideStatus(request, user)) THEN RideStatus(request, user)
  ELSE IF Truthy(request.status) THEN request.status
  ELSE "pending"

refreshStatus(request, user) ==
  IF Truthy(request.userRequestStatus) THEN request.userRequestStatus
  ELSE IF Truthy(request.status) /\ request.status # "pending" THEN request.status
  ELSE IF Truthy(OwnStatus(request, user)) THEN OwnStatus(request, user)
  ELSE IF Truthy(RideStatus(request, user)) THEN RideStatus(request, user)
  ELSE "pending"

refreshResolved(request, user) ==
  \/ Truthy(request.userRequestStatus)
  \/ (Truthy(request.status) /\ request.status # "pending")
  \/ Truthy(OwnStatus(request, user))
  \/ Truthy(RideStatus(request, user))

refreshSchedule(request, user) ==
  IF ~refreshResolved(request, user) /\ Truthy(ResolvableRideId(request))
  THEN ResolvableRideId(request) ELSE Undef

refreshProcess(request, user) ==
  [request EXCEPT !.status = refreshStatus(request, user)]

(***************************************************************************)
(* processedRequests.sort((a, b) => dateB - dateA) with                    *)
(*   date = new Date(x.createdAt || x.departureTime || x.time || 0).       *)
(* Array.prototype.sort is stable: entries of equal date keep the order    *)
(* of the backend.  A timestamp field holds the epoch value new Date()     *)
(* gives for it.                                                           *)
(***************************************************************************)
recency(r) == OrNum(OrNum(OrNum(r.createdAt, r.departureTime), r.time), 0)

\* compareFn as dateA - dateB: oldest first
compareFn_Ascending(a, b) ==
  IF recency(a) < recency(b) THEN "neg"
  ELSE IF recency(a) > recency(b) THEN "pos" ELSE "zero"

\* the comparator: negative when a sorts before b
compareFn(a, b) == IF recency(b) < recency(a) THEN "neg"
                   ELSE IF recency(b) > recency(a) THEN "pos" ELSE "zero"

\* x placed behind every entry that does not sort after it
InsertSorted(s, x) ==
  LET after == {i \in 1..Len(s) : compareFn(x, s[i]) = "neg"}
      k == IF after = {} THEN Len(s) + 1
           ELSE CHOOSE i \in after : \A j \in after : i <= j
  IN [i \in 1..(Len(s) + 1) |->
        IF i < k THEN s[i] ELSE IF i = k THEN x ELSE s[i - 1]]

RECURSIVE sortRequests(_)
sortRequests(s) ==
  IF Len(s) = 0 THEN <<>>
  ELSE InsertSorted(sortRequests(SubSeq(s, 1, Len(s) - 1)), s[Len(s)])

(***************************************************************************)
(* One normalization pass over the payload of list-my-requests.            *)
(***************************************************************************)
MapSeq(s, F(_)) == [i \in 1..Len(s) |-> F(s[i])]

IsSet(x) == x # Undef

fetchPass(payload, u) ==
  LET P(r) == fetchProcess(r, u) IN sortRequests(MapSeq(payload, P))

fetchTimeouts(payload, u) ==
  LET S(r) == fetchSchedule(r, u) IN SelectSeq(MapSeq(payload, S), IsSet)

refreshPass(payload, u) ==
  LET P(r) == refreshProcess(r, u) IN sortRequests(MapSeq(payload, P))

refreshTimeouts(payload, u) ==
  LET S(r) == refreshSchedule(r, u) IN SelectSeq(MapSeq(payload, S), IsSet)

\* list.map(r => ({ id: r.id || r._id, status: r.status })), as JSON.stringify sees it
idStatusPairs(list) ==
  LET F(r) == <<Or(r.id, r._id), r.status>> IN MapSeq(list, F)

hasStatusChanges(processedRequests, held) ==
  idStatusPairs(processedRequests) # idStatusPairs(held)

(***************************************************************************)
(* The component.  requests, loading, error, actionLoading, refreshing are *)
(* its useState cells, user the value of useAuth().  timers holds the      *)
(* timeout and the interval of the mount effect with the closure of the    *)
(* render the effect ran in; flights the network calls awaiting their      *)
(* response, each with the closure of the function that awaits it;         *)
(* deferred the pending 100 ms timeouts, in firing order.  emitted, calls  *)
(* and last record what the latest step showed (toasts, navigation), which *)
(* backend calls it issued, and which handler it was.  arg and result are  *)
(* the input and the output of a function applied on its own.              *)
(***************************************************************************)
VARIABLES requests, loading, error, actionLoading, refreshing, user, mounted,
          authChanges, timers, flights, deferred, emitted, calls, last, arg,
          result

view == <<requests, loading, error, actionLoading, refreshing, user, mounted,
          authChanges>>
tasks == <<timers, flights, deferred>>
outputs == <<emitted, calls, last>>
pure == <<arg, result>>
vars == <<view, tasks, outputs, pure>>

\* bounds of the model
MaxInFlight == 2
MaxDeferred == 2
MaxAuthChanges == 1

\* the delays of the timers, in ms
InitialRefreshDelay == 3000
RefreshInterval == 30000
SingleRefreshDelay == 100

NoError == "null"

NoUser == [loggedIn |-> FALSE, id |-> Undef, _id |-> Undef]
SessionUser == [loggedIn |-> TRUE, id |-> "u9", _id |-> Undef]
AuthUsers == {NoUser, SessionUser}

NoRide == [present |-> FALSE, id |-> Undef, _id |-> Undef, passengers |-> <<>>]
Ride(i, ps) == [present |-> TRUE, id |-> i, _id |-> Undef, passengers |-> ps]

Request(i, urs, st, ps, rd, c) ==
  [id |-> i, _id |-> Undef, userRequestStatus |-> urs, status |-> st,
   passengers |-> ps, ride |-> rd, createdAt |-> c, departureTime |-> 0,
   time |-> 0]

(***************************************************************************)
(* What the backend may answer.  list-my-requests: any list of requests    *)
(* r1, r2 (each at most once, in any order), a request either with a       *)
(* decided direct status or ambiguous (status pending, no passenger entry, *)
(* a ride with an id).  get-ride-by-id: a ride whose passenger list may    *)
(* hold the session user with a status.                                    *)
(***************************************************************************)
RequestIds == {"r1", "r2"}
RideOf(i) == IF i = "r1" THEN "k1" ELSE "k2"

\* the requests carry the same creation time, so that the stable sort keeps
\* the order of the backend (any order of dates is the subject of SpecSort)
BackendRequests ==
  {Request(i, Undef, st, <<>>, Ride(RideOf(i), <<>>), 1) :
     i \in RequestIds, st \in {"pending", "confirmed"}}

BackendLists ==
  {<<>>} \cup {<<a>> : a \in BackendRequests}
         \cup {<<a, b>> : a, b \in BackendRequests}

BackendPayloads ==
  {l \in BackendLists : \A i, j \in 1..Len(l) : l[i].id = l[j].id => i = j}

Passenger(ref, st) == [user |-> ref, status |-> st]

BackendRides ==
  {[passengers |-> <<>>]} \cup
  {[passengers |-> <<Passenger(StrRef("u9"), st)>>] : st \in {"confirmed", "rejected"}}

\* a rejected call: error.response, error.response.status, error.response.data.message
NetworkError == [response |-> FALSE, status |-> 0, message |-> Undef]
HttpError(code, msg) == [response |-> TRUE, status |-> code, message |-> msg]
BackendErrors ==
  {NetworkError, HttpError(400, "Too late to cancel"), HttpError(401, Undef)}

\* the closure of a function created by the latest render
Closure(u, l, rf, rq) == [user |-> u, loading |-> l, refreshing |-> rf, requests |-> rq]
CurrentRender == Closure(user, loading, refreshing, requests)
NoClosure == Closure(NoUser, FALSE, FALSE, <<>>)
NoTimers == [timeout |-> FALSE, interval |-> FALSE, cl |-> NoClosure]

\* a call in flight and the closure of the function awaiting it
Flight(kind, a, cl) ==
  [kind |-> kind, arg |-> a, cuser |-> cl.user, cloading |-> cl.loading,
   crefreshing |-> cl.refreshing,
   crequests |-> IF kind = "refresh" THEN cl.requests ELSE <<>>,
   overtaken |-> {}]

\* setTimeout(() => refreshSingleRideStatus(rideId), 100) set by a function of closure f
Timeout(rideId, f) ==
  [rideId |-> rideId, cuser |-> f.cuser, cloading |-> f.cloading,
   crefreshing |-> f.crefreshing]

Toast(kind, text, detail) == [kind |-> kind, text |-> text, detail |-> detail]
Call(api, a) == [api |-> api, arg |-> a]
Event(op, a) == [op |-> op, arg |-> a]

RemoveAt(s, k) == [i \in 1..(Len(s) - 1) |-> IF i < k THEN s[i] ELSE s[i + 1]]

\* The calls in flight are kept in the order they were issued.  When the
\* response of call k is stored, the calls issued before it that are still
\* awaited note the rides for which a later call has delivered (a record of
\* the run that no function of the component reads).
Fetches == {"fetch", "refresh", "single"}
AllRides == {RideOf(i) : i \in RequestIds}
Overtake(s, k, rides) ==
  [i \in 1..(Len(s) - 1) |->
     IF i >= k THEN s[i + 1]
     ELSE IF s[i].kind \in Fetches
          THEN [s[i] EXCEPT !.overtaken = @ \cup rides]
          ELSE s[i]]

\* the calls in flight after the response of call k, with or without that record
Delivered(s, k, rides, ordered) ==
  IF ordered THEN Overtake(s, k, rides) ELSE RemoveAt(s, k)

\* a state update of an unmounted component is dropped
Live == mounted = "mounted"

Show(e, c, l) == emitted' = e /\ calls' = c /\ last' = l

(***************************************************************************)
(* The state after construction: the first render, before its effects.     *)
(***************************************************************************)
ViewInit ==
  /\ requests = <<>>
  /\ loading = TRUE
  /\ error = NoError
  /\ actionLoading = FALSE
  /\ refreshing = FALSE
  /\ mounted = "init"
  /\ authChanges = 0
  /\ timers = NoTimers
  /\ flights = <<>>
  /\ deferred = <<>>
  /\ emitted = <<>>
  /\ calls = <<>>
  /\ last = Event("render", Undef)

Init ==
  /\ ViewInit
  /\ user \in AuthUsers
  /\ arg = Undef
  /\ result = Undef

(***************************************************************************)
(* fetchRideRequests up to its await, run by a function of closure cl.     *)
(***************************************************************************)
fetchRideRequests(cl) ==
  IF ~cl.user.loggedIn
  THEN /\ UNCHANGED <<loading, error, flights>>
       /\ calls' = <<>>
  ELSE /\ Len(flights) < MaxInFlight
       /\ loading' = TRUE
       /\ error' = NoError
       /\ flights' = Append(flights, Flight("fetch", Undef, cl))
       /\ calls' = <<Call("getUserRequests", Undef)>>

(***************************************************************************)
(* refreshRideRequests up to its await, run by a function of closure cl.   *)
(***************************************************************************)
refreshRideRequests(cl) ==
  IF ~cl.user.loggedIn \/ cl.loading
  THEN /\ UNCHANGED <<refreshing, flights>>
       /\ calls' = <<>>
  ELSE /\ Len(flights) < MaxInFlight
       /\ refreshing' = TRUE
       /\ flights' = Append(flights, Flight("refresh", Undef, cl))
       /\ calls' = <<Call("getUserRequests", Undef)>>

(***************************************************************************)
(* The effect of useEffect(..., [user]): fetch, then set the 3 s timeout   *)
(* and the 30 s interval; its cleanup clears both.                         *)
(***************************************************************************)
mountEffect(cl) ==
  /\ fetchRideRequests(cl)
  /\ timers' = [timeout |-> TRUE, interval |-> TRUE, cl |-> cl]

Mount ==
  /\ mounted = "init"
  /\ mounted' = "mounted"
  /\ mountEffect(CurrentRender)
  /\ emitted' = <<>>
  /\ last' = Event("mount", Undef)
  /\ UNCHANGED <<requests, actionLoading, refreshing, user, authChanges, deferred,
                 pure>>

\* useAuth() hands the component another user object: re-render, cleanup, effect
AuthChange ==
  /\ Live
  /\ authChanges < MaxAuthChanges
  /\ authChanges' = authChanges + 1
  /\ \E u \in AuthUsers :
       /\ user' = u
       /\ mountEffect(Closure(u, loading, refreshing, requests))
  /\ emitted' = <<>>
  /\ last' = Event("authChange", Undef)
  /\ UNCHANGED <<requests, actionLoading, refreshing, mounted, deferred, pure>>

Unmount ==
  /\ Live
  /\ mounted' = "unmounted"
  /\ timers' = NoTimers
  /\ Show(<<>>, <<>>, Event("unmount", Undef))
  /\ UNCHANGED <<requests, loading, error, actionLoading, refreshing, user,
                 authChanges, flights, deferred, pure>>

\* the callback of setTimeout(..., 3000)
InitialRefreshTimeout ==
  /\ timers.timeout
  /\ timers' = [timers EXCEPT !.timeout = FALSE]
  /\ refreshRideRequests(timers.cl)
  /\ emitted' = <<>>
  /\ last' = Event("initialRefreshTimeout", Undef)
  /\ UNCHANGED <<requests, loading, error, actionLoading, user, mounted, authChanges,
                 deferred, pure>>

\* the callback of setInterval(..., 30000): its first tick comes after the timeout
RefreshIntervalTick ==
  /\ timers.interval
  /\ timers.timeout => RefreshInterval < InitialRefreshDelay
  /\ refreshRideRequests(timers.cl)
  /\ emitted' = <<>>
  /\ last' = Event("refreshInterval", Undef)
  /\ UNCHANGED <<requests, loading, error, actionLoading, user, mounted, authChanges,
                 timers, deferred, pure>>

(***************************************************************************)
(* What the render offers: the loading text, or the error with Try Again,  *)
(* or the empty list, or the table with Refresh and the rows.              *)
(***************************************************************************)
ShowsError == Live /\ ~loading /\ error # NoError
ShowsTable == Live /\ ~loading /\ error = NoError /\ requests # <<>>

\* onClick={fetchRideRequests} of Try Again
ClickTryAgain ==
  /\ ShowsError
  /\ fetchRideRequests(CurrentRender)
  /\ emitted' = <<>>
  /\ last' = Event("tryAgain", Undef)
  /\ UNCHANGED <<requests, actionLoading, refreshing, user, mounted, authChanges, timers,
                 deferred, pure>>

\* onClick={refreshRideRequests} of Refresh, disabled={refreshing}
ClickRefresh ==
  /\ ShowsTable
  /\ ~refreshing
  /\ refreshRideRequests(CurrentRender)
  /\ emitted' = <<>>
  /\ last' = Event("refresh", Undef)
  /\ UNCHANGED <<requests, loading, error, actionLoading, user, mounted, authChanges,
                 timers, deferred, pure>>

(***************************************************************************)
(* fetchRideRequests after its await: the response of list-my-requests.    *)
(***************************************************************************)
NewTimeouts(rideIds, f) == [i \in 1..Len(rideIds) |-> Timeout(rideIds[i], f)]

FetchResponse(ordered) ==
  \E k \in DOMAIN flights, payload \in BackendPayloads :
    LET f == flights[k]
        processedRequests == fetchPass(payload, f.cuser)
        rideIds == fetchTimeouts(payload, f.cuser)
    IN /\ f.kind = "fetch"
       /\ Len(deferred) + Len(rideIds) <= MaxDeferred
       /\ flights' = Delivered(flights, k, IF Live THEN AllRides ELSE {}, ordered)
       /\ deferred' = deferred \o NewTimeouts(rideIds, f)
       /\ requests' = IF Live THEN processedRequests ELSE requests
       /\ loading' = IF Live THEN FALSE ELSE loading
       /\ Show(<<>>, <<>>, Event("fetchRideRequests.then", payload))
       /\ UNCHANGED <<error, actionLoading, refreshing, user, mounted, authChanges, timers, pure>>

FetchSucceeds == FetchResponse(FALSE)
FetchSucceedsInOrder == FetchResponse(TRUE)

\* the catch block of fetchRideRequests
fetchErrorMessage(err) ==
  IF err.response THEN Or(err.message, "Server error. Please try again.")
  ELSE "Failed to load your ride requests."

\* FetchFails without the finally block: loading is left true
FetchFails_StaysLoading ==
  \E k \in DOMAIN flights, err \in BackendErrors :
    /\ flights[k].kind = "fetch"
    /\ flights' = RemoveAt(flights, k)
    /\ error' = IF Live THEN fetchErrorMessage(err) ELSE error
    /\ Show(<<Toast("error", fetchErrorMessage(err), Undef)>>, <<>>,
            Event("fetchRideRequests.catch", err))
    /\ UNCHANGED <<requests, loading, actionLoading, refreshing, user, mounted, authChanges,
                   timers, deferred, pure>>

FetchFails ==
  \E k \in DOMAIN flights, err \in BackendErrors :
    LET f == flights[k]
        errorMessage == fetchErrorMessage(err)
        navigation == IF err.response /\ err.status = 401
                      THEN <<Toast("navigate", "/login", Undef)>> ELSE <<>>
    IN /\ f.kind = "fetch"
       /\ flights' = RemoveAt(flights, k)
       /\ error' = IF Live THEN errorMessage ELSE error
       /\ loading' = IF Live THEN FALSE ELSE loading
       /\ Show(navigation \o <<Toast("error", errorMessage, Undef)>>, <<>>,
               Event("fetchRideRequests.catch", err))
       /\ UNCHANGED <<requests, actionLoading, refreshing, user, mounted, authChanges,
                      timers, deferred, pure>>

(***************************************************************************)
(* refreshRideRequests after its await.  The list it compares the new one  *)
(* with is the requests of its closure.                                    *)
(***************************************************************************)
RefreshResponse(ordered) ==
  \E k \in DOMAIN flights, payload \in BackendPayloads :
    LET f == flights[k]
        processedRequests == refreshPass(payload, f.cuser)
        rideIds == refreshTimeouts(payload, f.cuser)
    IN /\ f.kind = "refresh"
       /\ Len(deferred) + Len(rideIds) <= MaxDeferred
       /\ flights' = Delivered(flights, k, IF Live THEN AllRides ELSE {}, ordered)
       /\ deferred' = deferred \o NewTimeouts(rideIds, f)
       /\ requests' = IF Live THEN processedRequests ELSE requests
       /\ refreshing' = IF Live THEN FALSE ELSE refreshing
       /\ Show(IF hasStatusChanges(processedRequests, f.crequests)
               THEN <<Toast("success", "Ride request status updated", Undef)>>
               ELSE <<>>,
               <<>>, Event("refreshRideRequests.then", payload))
       /\ UNCHANGED <<loading, error, actionLoading, user, mounted, authChanges, timers, pure>>

RefreshSucceeds == RefreshResponse(FALSE)
RefreshSucceedsInOrder == RefreshResponse(TRUE)

\* RefreshFails with the setError of the load
RefreshFails_SetsError ==
  \E k \in DOMAIN flights, err \in BackendErrors :
    /\ flights[k].kind = "refresh"
    /\ flights' = RemoveAt(flights, k)
    /\ refreshing' = IF Live THEN FALSE ELSE refreshing
    /\ error' = IF Live THEN fetchErrorMessage(err) ELSE error
    /\ Show(<<>>, <<>>, Event("refreshRideRequests.catch", Undef))
    /\ UNCHANGED <<requests, loading, actionLoading, user, mounted, authChanges,
                   timers, deferred, pure>>

\* RefreshFails with the catch block of the load: the failure is shown
RefreshFails_Surfaced ==
  \E k \in DOMAIN flights, err \in BackendErrors :
    /\ flights[k].kind = "refresh"
    /\ flights' = RemoveAt(flights, k)
    /\ refreshing' = IF Live THEN FALSE ELSE refreshing
    /\ Show(<<Toast("error", fetchErrorMessage(err), Undef)>>, <<>>,
            Event("refreshRideRequests.catch", Undef))
    /\ UNCHANGED <<requests, loading, error, actionLoading, user, mounted, authChanges,
                   timers, deferred, pure>>

RefreshFails ==
  \E k \in DOMAIN flights, err \in BackendErrors :
    /\ flights[k].kind = "refresh"
    /\ flights' = RemoveAt(flights, k)
    /\ refreshing' = IF Live THEN FALSE ELSE refreshing
    /\ Show(<<>>, <<>>, Event("refreshRideRequests.catch", Undef))
    /\ UNCHANGED <<requests, loading, error, actionLoading, user, mounted, authChanges,
                   timers, deferred, pure>>

(***************************************************************************)
(* refreshSingleRideStatus, run by a 100 ms timeout: loading and           *)
(* refreshing are those of the closure of the function that set it.        *)
(***************************************************************************)
refreshSingleRideStatus(rideId, d) ==
  IF ~Truthy(rideId) \/ d.crefreshing \/ d.cloading
  THEN /\ UNCHANGED flights
       /\ calls' = <<>>
  ELSE /\ Len(flights) < MaxInFlight
       /\ flights' = Append(flights,
            Flight("single", rideId, Closure(d.cuser, d.cloading, d.crefreshing, <<>>)))
       /\ calls' = <<Call("getRideById", rideId)>>

SingleRefreshTimeout ==
  /\ deferred # <<>>
  /\ deferred' = Tail(deferred)
  /\ refreshSingleRideStatus(Head(deferred).rideId, Head(deferred))
  /\ emitted' = <<>>
  /\ last' = Event("singleRefreshTimeout", Head(deferred).rideId)
  /\ UNCHANGED <<view, timers, pure>>

\* the test of prevRequests.map(req => ...)
updatesEntry(req, rideId, status) ==
  /\ \/ (req.ride.present /\ req.ride.id = rideId)
     \/ (req.ride.present /\ req.ride._id = rideId)
     \/ req.id = rideId
     \/ req._id = rideId
  /\ req.status # status

\* applyRideStatus without the test of the ride id: every entry gets the status
applyRideStatus_All(prevRequests, rideId, status) ==
  [i \in 1..Len(prevRequests) |-> [prevRequests[i] EXCEPT !.status = status]]

applyRideStatus(prevRequests, rideId, status) ==
  [i \in 1..Len(prevRequests) |->
     IF updatesEntry(prevRequests[i], rideId, status)
     THEN [prevRequests[i] EXCEPT !.status = status]
     ELSE prevRequests[i]]

\* one toast for every entry the updater replaces
rideStatusToasts(prevRequests, rideId, status) ==
  LET Hit(req) == updatesEntry(req, rideId, status)
      T(req) == Toast("success", "Ride request status updated to", status)
  IN MapSeq(SelectSeq(prevRequests, Hit), T)

\* the ride asked for and userPassenger && userPassenger.status of the response
Found(rideId, status) == [rideId |-> rideId, status |-> status]

SingleResponse(ordered) ==
  \E k \in DOMAIN flights, rideDetails \in BackendRides :
    LET f == flights[k]
        Me(p) == MatchOwn(p, f.cuser)
        status == FoundStatus(rideDetails.passengers, Me)
        applies == Truthy(status) /\ Live
    IN /\ f.kind = "single"
       /\ flights' = Delivered(flights, k, IF applies THEN {f.arg} ELSE {}, ordered)
       /\ requests' = IF applies THEN applyRideStatus(requests, f.arg, status)
                      ELSE requests
       /\ Show(IF applies THEN rideStatusToasts(requests, f.arg, status) ELSE <<>>,
               <<>>, Event("refreshSingleRideStatus.then", Found(f.arg, status)))
       /\ UNCHANGED <<loading, error, actionLoading, refreshing, user, mounted, authChanges,
                      timers, deferred, pure>>

SingleSucceeds == SingleResponse(FALSE)
SingleSucceedsInOrder == SingleResponse(TRUE)

SingleFails ==
  \E k \in DOMAIN flights, err \in BackendErrors :
    /\ flights[k].kind = "single"
    /\ flights' = RemoveAt(flights, k)
    /\ Show(<<>>, <<>>, Event("refreshSingleRideStatus.catch", flights[k].arg))
    /\ UNCHANGED <<view, timers, deferred, pure>>

(***************************************************************************)
(* forceRefreshAllStatuses: one get-ride-by-id call after the other, for   *)
(* every entry of the requests of its closure, applied to a copy of that   *)
(* list, which is stored at the end when a status changed.  The flight     *)
(* holds the index of the entry awaited, the copy and statusChanged.  The  *)
(* Force Update button is in the table, disabled while refreshing.         *)
(***************************************************************************)
\* request.ride?.id || request.ride?._id || request.id || request._id
forceRideId(request) ==
  Or(Or(IF request.ride.present THEN Or(request.ride.id, request.ride._id) ELSE Undef,
        request.id), request._id)

Progress(i, updatedRequests, statusChanged) ==
  [i |-> i, updatedRequests |-> updatedRequests, statusChanged |-> statusChanged]

\* NextRide taking the last entry that has a ride id instead of the next one
NextRide_Last(updatedRequests, i) ==
  LET rest == {j \in (i + 1)..Len(updatedRequests) : Truthy(forceRideId(updatedRequests[j]))}
  IN IF rest = {} THEN 0 ELSE CHOOSE j \in rest : \A m \in rest : j >= m

\* the first entry after index i that has a ride id to ask for, 0 when none
NextRide(updatedRequests, i) ==
  LET rest == {j \in (i + 1)..Len(updatedRequests) : Truthy(forceRideId(updatedRequests[j]))}
  IN IF rest = {} THEN 0 ELSE CHOOSE j \in rest : \A m \in rest : j <= m

ForceOffered == ShowsTable /\ ~refreshing

\* the Force Update button: forceRefreshAllStatuses up to its first await
ClickForceUpdate ==
  LET first == NextRide(requests, 0) IN
  /\ ForceOffered
  /\ Len(flights) < MaxInFlight
  /\ first # 0
  /\ refreshing' = TRUE
  /\ flights' = Append(flights,
       Flight("force", Progress(first, requests, FALSE), CurrentRender))
  /\ Show(<<Toast("loading", "Checking latest status for all rides...", Undef)>>,
          <<Call("getRideById", forceRideId(requests[first]))>>,
          Event("forceRefreshAllStatuses", Undef))
  /\ UNCHANGED <<requests, loading, error, actionLoading, user, mounted, authChanges,
                 timers, deferred, pure>>

\* what the call just settled was for (or the copy at the end), and whether it failed
Settled(what, failed) == [what |-> what, failed |-> failed]

\* the rest of the loop and the end of forceRefreshAllStatuses, from the point
\* where the call for entry f.arg.i is settled with the copy as given
forceContinue(k, updatedRequests, statusChanged, failed) ==
  LET f == flights[k]
      next == NextRide(updatedRequests, f.arg.i)
  IN IF next # 0
     THEN /\ flights' = [flights EXCEPT
                           ![k].arg = Progress(next, updatedRequests, statusChanged)]
          /\ Show(<<>>, <<Call("getRideById", forceRideId(updatedRequests[next]))>>,
                  Event("forceRefreshAllStatuses.next",
                        Settled(forceRideId(updatedRequests[f.arg.i]), failed)))
          /\ UNCHANGED <<requests, refreshing>>
     ELSE /\ flights' = RemoveAt(flights, k)
          /\ requests' = IF statusChanged /\ Live THEN updatedRequests ELSE requests
          /\ refreshing' = IF Live THEN FALSE ELSE refreshing
          /\ Show(<<Toast("success",
                          IF statusChanged THEN "Ride statuses updated successfully"
                          ELSE "All ride statuses are already up to date", Undef),
                    Toast("dismiss", Undef, Undef)>>,
                  <<>>, Event("forceRefreshAllStatuses.done", Settled(updatedRequests, failed)))

\* the response of get-ride-by-id for the entry awaited
ForceStepSucceeds ==
  \E k \in DOMAIN flights, rideDetails \in BackendRides :
    LET f == flights[k]
        request == f.arg.updatedRequests[f.arg.i]
        Me(p) == MatchOwn(p, f.cuser)
        status == FoundStatus(rideDetails.passengers, Me)
        changes == Truthy(status) /\ status # request.status
    IN /\ f.kind = "force"
       /\ forceContinue(k,
            IF changes
            THEN [f.arg.updatedRequests EXCEPT ![f.arg.i].status = status]
            ELSE f.arg.updatedRequests,
            f.arg.statusChanged \/ changes, FALSE)
       /\ UNCHANGED <<loading, error, actionLoading, user, mounted, authChanges, timers,
                      deferred, pure>>

\* ForceStepFails without the inner try: the failure reaches the outer catch
ForceStepFails_Aborts ==
  \E k \in DOMAIN flights, err \in BackendErrors :
    /\ flights[k].kind = "force"
    /\ flights' = RemoveAt(flights, k)
    /\ refreshing' = IF Live THEN FALSE ELSE refreshing
    /\ Show(<<Toast("error", "Failed to refresh ride statuses", Undef),
              Toast("dismiss", Undef, Undef)>>,
            <<>>, Event("forceRefreshAllStatuses.done",
                        Settled(flights[k].arg.updatedRequests, TRUE)))
    /\ UNCHANGED <<requests, loading, error, actionLoading, user, mounted, authChanges,
                   timers, deferred, pure>>

\* the inner catch: the entry is skipped
ForceStepFails ==
  \E k \in DOMAIN flights, err \in BackendErrors :
    /\ flights[k].kind = "force"
    /\ forceContinue(k, flights[k].arg.updatedRequests, flights[k].arg.statusChanged, TRUE)
    /\ UNCHANGED <<loading, error, actionLoading, user, mounted, authChanges, timers,
                   deferred, pure>>

(***************************************************************************)
(* handleCancelRequest.  The Cancel button of a row is rendered when the   *)
(* row's status (request.status || 'pending') is pending and is disabled   *)
(* while actionLoading; window.confirm answers confirmed.                  *)
(***************************************************************************)
requestKey(req) == Or(req.id, req._id)

\* what window.confirm returned for the request, and what a rejected cancel carried
Answer(requestId, confirmed) == [requestId |-> requestId, confirmed |-> confirmed]
Rejected(requestId, err) == [requestId |-> requestId, err |-> err]

\* the values the filter buttons give statusFilter
StatusFilters == {"all", "pending", "confirmed", "rejected"}

\* the rows of the table: the filter effect on requests and statusFilter.
\* statusFilter is read by nothing else, so the filter the user has chosen is
\* an input of the click on a row.
filteredRequests(statusFilter) ==
  LET Keep(request) == request.status = statusFilter
  IN  IF statusFilter = "all" THEN requests ELSE SelectSeq(requests, Keep)

\* the status shown in a row
rowStatus(request) == Or(request.status, "pending")

\* CancelOffered with a Cancel button that is never disabled
CancelOffered_NeverDisabled(requestId) ==
  /\ ShowsTable
  /\ \E statusFilter \in StatusFilters :
       LET rows == filteredRequests(statusFilter)
       IN  \E i \in 1..Len(rows) :
             /\ requestKey(rows[i]) = requestId
             /\ rowStatus(rows[i]) = "pending"

CancelOffered(requestId) ==
  /\ ShowsTable
  /\ ~actionLoading
  /\ \E statusFilter \in StatusFilters :
       LET rows == filteredRequests(statusFilter)
       IN  \E i \in 1..Len(rows) :
             /\ requestKey(rows[i]) = requestId
             /\ rowStatus(rows[i]) = "pending"

\* ClickCancel without the early return on a declined window.confirm
ClickCancel_NoConfirm ==
  \E requestId \in RequestIds, confirmed \in BOOLEAN :
    /\ CancelOffered(requestId)
    /\ Len(flights) < MaxInFlight
    /\ actionLoading' = TRUE
    /\ flights' = Append(flights, Flight("cancel", requestId, CurrentRender))
    /\ Show(<<>>, <<Call("cancelRequest", requestId)>>,
            Event("handleCancelRequest", Answer(requestId, confirmed)))
    /\ UNCHANGED <<requests, loading, error, refreshing, user, mounted,
                   authChanges, timers, deferred, pure>>

ClickCancel ==
  \E requestId \in RequestIds, confirmed \in BOOLEAN :
    /\ CancelOffered(requestId)
    /\ IF ~confirmed
       THEN /\ UNCHANGED <<actionLoading, flights>>
            /\ Show(<<>>, <<>>, Event("handleCancelRequest", Answer(requestId, confirmed)))
       ELSE /\ Len(flights) < MaxInFlight
            /\ actionLoading' = TRUE
            /\ flights' = Append(flights, Flight("cancel", requestId, CurrentRender))
            /\ Show(<<>>, <<Call("cancelRequest", requestId)>>,
                    Event("handleCancelRequest", Answer(requestId, confirmed)))
    /\ UNCHANGED <<requests, loading, error, refreshing, user, mounted, authChanges, timers,
                   deferred, pure>>

\* removeRequest comparing req.id alone with the wrong operator: it keeps only the match
removeRequest_KeepsMatch(prevRequests, requestId) ==
  LET Keep(req) == requestKey(req) = requestId IN SelectSeq(prevRequests, Keep)

\* prevRequests.filter(req => (req.id || req._id) !== requestId)
removeRequest(prevRequests, requestId) ==
  LET Keep(req) == requestKey(req) # requestId IN SelectSeq(prevRequests, Keep)

CancelSucceeds ==
  \E k \in DOMAIN flights :
    /\ flights[k].kind = "cancel"
    /\ flights' = RemoveAt(flights, k)
    /\ requests' = IF Live THEN removeRequest(requests, flights[k].arg) ELSE requests
    /\ actionLoading' = IF Live THEN FALSE ELSE actionLoading
    /\ Show(<<Toast("success", "Ride request cancelled successfully", Undef)>>,
            <<>>, Event("handleCancelRequest.then", flights[k].arg))
    /\ UNCHANGED <<loading, error, refreshing, user, mounted, authChanges, timers, deferred, pure>>

\* cancelErrorMessage that drops the message of the backend
cancelErrorMessage_Generic(err) == "Failed to cancel ride request."

\* the catch block of handleCancelRequest
cancelErrorMessage(err) ==
  IF err.response THEN Or(err.message, "Failed to cancel ride request.")
  ELSE "Failed to cancel ride request."

CancelFails ==
  \E k \in DOMAIN flights, err \in BackendErrors :
    /\ flights[k].kind = "cancel"
    /\ flights' = RemoveAt(flights, k)
    /\ actionLoading' = IF Live THEN FALSE ELSE actionLoading
    /\ Show(<<Toast("error", cancelErrorMessage(err), Undef)>>, <<>>,
            Event("handleCancelRequest.catch", Rejected(flights[k].arg, err)))
    /\ UNCHANGED <<requests, loading, error, refreshing, user, mounted, authChanges, timers,
                   deferred, pure>>

Next ==
  \/ Mount
  \/ InitialRefreshTimeout
  \/ RefreshIntervalTick
  \/ ClickTryAgain
  \/ ClickRefresh
  \/ FetchSucceeds
  \/ FetchFails
  \/ RefreshSucceeds
  \/ RefreshFails
  \/ SingleRefreshTimeout
  \/ SingleSucceeds
  \/ SingleFails
  \/ ClickCancel
  \/ CancelSucceeds
  \/ CancelFails

Spec == Init /\ [][Next]_vars

\* the same view with the order of issue of the calls recorded
NextOrder ==
  \/ Mount
  \/ InitialRefreshTimeout
  \/ RefreshIntervalTick
  \/ ClickTryAgain
  \/ ClickRefresh
  \/ FetchSucceedsInOrder
  \/ FetchFails
  \/ RefreshSucceedsInOrder
  \/ RefreshFails
  \/ SingleRefreshTimeout
  \/ SingleSucceedsInOrder
  \/ SingleFails
  \/ ClickCancel
  \/ CancelSucceeds
  \/ CancelFails

SpecOrder == Init /\ [][NextOrder]_vars

\* the table with the Force Update button after a load that succeeded: the
\* timers, whose callbacks return at the guard in this view, the failed load
\* and Try Again are left out
NextForce ==
  \/ Mount
  \/ FetchSucceeds
  \/ ClickRefresh
  \/ RefreshSucceeds
  \/ RefreshFails
  \/ SingleRefreshTimeout
  \/ SingleSucceeds
  \/ SingleFails
  \/ ClickCancel
  \/ CancelSucceeds
  \/ CancelFails
  \/ ClickForceUpdate
  \/ ForceStepSucceeds
  \/ ForceStepFails

SpecForce == Init /\ [][NextForce]_vars

\* the loads and the timers while the session changes under the view: the
\* buttons of the table and the targeted re-fetches are left out
NextAuth ==
  \/ Mount
  \/ AuthChange
  \/ InitialRefreshTimeout
  \/ RefreshIntervalTick
  \/ ClickTryAgain
  \/ FetchSucceeds
  \/ FetchFails
  \/ RefreshSucceeds
  \/ RefreshFails

SpecAuth == Init /\ [][NextAuth]_vars

\* the view up to and after its teardown
NextTeardown == Next \/ Unmount

SpecTeardown == Init /\ [][NextTeardown]_vars

(***************************************************************************)
(* The normalizers on their own: one request of the payload and one        *)
(* session user, drawn from every combination of a pre-resolved status, a  *)
(* direct status, passenger entries on the request and under the embedded  *)
(* ride (at most MaxPassengers in all) in every shape of user reference.   *)
(***************************************************************************)
MaxPassengers == 2

UserRefs ==
  {NoRef, StrRef("u9"), StrRef("u7"), ObjRef("u9", Undef), ObjRef(Undef, "u9"),
   ObjRef(Undef, Undef)}

PassengerStatuses == {Undef, "pending", "confirmed"}

Passengers == {Passenger(ref, st) : ref \in UserRefs, st \in PassengerStatuses}

NormRides(ps) ==
  {[present |-> TRUE, id |-> i, _id |-> Undef, passengers |-> ps] : i \in {Undef, "k1"}}
  \cup (IF ps = <<>> THEN {NoRide} ELSE {})

NormUsers ==
  {[loggedIn |-> TRUE, id |-> "u9", _id |-> Undef],
   [loggedIn |-> TRUE, id |-> Undef, _id |-> "u9"]}

Normalized(op, st, rideId, out) ==
  [op |-> op, status |-> st, schedule |-> rideId, out |-> out]

NotApplied == Normalized("none", Undef, Undef, Undef)

NormInit ==
  /\ ViewInit
  /\ user = NoUser
  /\ \E m \in 0..MaxPassengers :
       \E n \in 0..(MaxPassengers - m) :
         \E own \in [1..m -> Passengers], nested \in [1..n -> Passengers] :
           \E urs \in {Undef, "", "confirmed"}, st \in {Undef, "pending", "rejected"},
              rd \in NormRides(nested), u \in NormUsers :
             arg = [request |-> Request("r1", urs, st, own, rd, 1), user |-> u]
  /\ result = NotApplied

NormalizeFetch ==
  /\ result.op = "none"
  /\ result' = Normalized("fetch", fetchStatus(arg.request, arg.user),
                          fetchSchedule(arg.request, arg.user),
                          fetchProcess(arg.request, arg.user))
  /\ UNCHANGED <<view, tasks, outputs, arg>>

NormalizeRefresh ==
  /\ result.op = "none"
  /\ result' = Normalized("refresh", refreshStatus(arg.request, arg.user),
                          refreshSchedule(arg.request, arg.user),
                          refreshProcess(arg.request, arg.user))
  /\ UNCHANGED <<view, tasks, outputs, arg>>

NextNorm == NormalizeFetch \/ NormalizeRefresh

SpecNorm == NormInit /\ [][NextNorm]_vars

\* A second pass over the request the first pass returned, as a refresh or a
\* load gives it when the backend hands back what the view holds.
Again == {"fetch.again", "refresh.again"}

FetchAgain ==
  /\ result.op \in {"fetch", "refresh"}
  /\ result' = Normalized("fetch.again", fetchStatus(result.out, arg.user),
                          fetchSchedule(result.out, arg.user),
                          fetchProcess(result.out, arg.user))
  /\ UNCHANGED <<view, tasks, outputs, arg>>

RefreshAgain ==
  /\ result.op \in {"fetch", "refresh"}
  /\ result' = Normalized("refresh.again", refreshStatus(result.out, arg.user),
                          refreshSchedule(result.out, arg.user),
                          refreshProcess(result.out, arg.user))
  /\ UNCHANGED <<view, tasks, outputs, arg>>

NextAgain == NextNorm \/ FetchAgain \/ RefreshAgain

SpecAgain == NormInit /\ [][NextAgain]_vars

(***************************************************************************)
(* The two passes on their own: a payload of up to MaxLen requests whose   *)
(* createdAt, departureTime and time are each absent or a date, in every   *)
(* order the backend may return them in.                                   *)
(***************************************************************************)
MaxLen == 3

Timestamps == {0, 1, 2}

Dated(i, c, d, t) ==
  [Request(i, Undef, "pending", <<>>, NoRide, c) EXCEPT !.departureTime = d, !.time = t]

RequestName(i) ==
  IF i = 1 THEN "r1" ELSE IF i = 2 THEN "r2" ELSE IF i = 3 THEN "r3" ELSE "r4"

\* the list a pass stores and the ride ids it set a 100 ms timeout for
Passed(op, out, timeouts) == [op |-> op, out |-> out, timeouts |-> timeouts]

SortInit ==
  /\ ViewInit
  /\ user = NoUser
  /\ \E n \in 0..MaxLen :
       \E dates \in [1..n -> Timestamps \X Timestamps \X Timestamps] :
         arg = [payload |-> [i \in 1..n |-> Dated(RequestName(i), dates[i][1],
                                                  dates[i][2], dates[i][3])],
                user |-> SessionUser]
  /\ result = Passed("none", <<>>, <<>>)

PassFetch ==
  /\ result.op = "none"
  /\ result' = Passed("fetch", fetchPass(arg.payload, arg.user),
                    fetchTimeouts(arg.payload, arg.user))
  /\ UNCHANGED <<view, tasks, outputs, arg>>

PassRefresh ==
  /\ result.op = "none"
  /\ result' = Passed("refresh", refreshPass(arg.payload, arg.user),
                    refreshTimeouts(arg.payload, arg.user))
  /\ UNCHANGED <<view, tasks, outputs, arg>>

NextSort == PassFetch \/ PassRefresh

SpecSort == SortInit /\ [][NextSort]_vars

(***************************************************************************)
(* The two passes over a page of requests that differ in what resolves     *)
(* them: a direct status, an entry of the session user in the own          *)
(* passenger list (with or without a status), and an embedded ride that is *)
(* absent, has an id, has only an _id, or has neither.  Every request of   *)
(* the page is a request for a ride of its own.                            *)
(***************************************************************************)
MaxPage == 2

RideName(i) ==
  IF i = 1 THEN "k1" ELSE IF i = 2 THEN "k2" ELSE IF i = 3 THEN "k3" ELSE "k4"

RideShapes == {"none", "id", "_id", "anonymous"}

PageRide(i, shape) ==
  IF shape = "none" THEN NoRide
  ELSE IF shape = "id" THEN Ride(RideName(i), <<>>)
  ELSE IF shape = "_id" THEN [Ride(Undef, <<>>) EXCEPT !._id = RideName(i)]
  ELSE Ride(Undef, <<>>)

PageOwn ==
  {<<>>, <<Passenger(StrRef("u9"), "confirmed")>>, <<Passenger(StrRef("u9"), Undef)>>}

PageInit ==
  /\ ViewInit
  /\ user = NoUser
  /\ \E n \in 0..MaxPage :
       \E page \in [1..n -> {Undef, "pending", "confirmed"} \X PageOwn \X RideShapes] :
         arg = [payload |-> [i \in 1..n |->
                              Request(RequestName(i), Undef, page[i][1], page[i][2],
                                      PageRide(i, page[i][3]), 1)],
                user |-> SessionUser]
  /\ result = Passed("none", <<>>, <<>>)

SpecPage == PageInit /\ [][NextSort]_vars

(***************************************************************************)
(* The body of the list-my-requests response (response.data) and what the  *)
(* two functions take as userRequests.  A body is undefined, an array, a    *)
(* request object, or an object with a data field (inner: what data is).   *)
(* items are the requests of an array, or the one object.                  *)
(***************************************************************************)
Body(type, inner, items) == [type |-> type, inner |-> inner, items |-> items]

JsUndefined == Body("undefined", "", <<>>)
JsArray(items) == Body("array", "", items)

\* an object that has none of the fields of a request
Blank == Request(Undef, Undef, Undef, <<>>, NoRide, 0)

\* response.data.data : only an object with a data field has one
DataOf(body) ==
  IF body.type = "wrapper" THEN Body(body.inner, "", body.items) ELSE JsUndefined

\* a value in a condition: undefined is falsy, an array (empty or not) and an object are truthy
TruthyBody(body) == body.type # "undefined"

\* [response.data]
ArrayOf(body) == JsArray(IF body.type = "wrapper" THEN <<Blank>> ELSE body.items)

\* fetchUnwrap without the last branch: a body that is not an array gives no requests
fetchUnwrap_ArraysOnly(body) ==
  IF TruthyBody(body) /\ TruthyBody(DataOf(body)) THEN DataOf(body)
  ELSE IF body.type = "array" THEN body
  ELSE JsArray(<<>>)

fetchUnwrap(body) ==
  IF TruthyBody(body) /\ TruthyBody(DataOf(body)) THEN DataOf(body)
  ELSE IF TruthyBody(body) /\ body.type = "array" THEN body
  ELSE IF TruthyBody(body) THEN ArrayOf(body)
  ELSE JsArray(<<>>)

refreshUnwrap(body) ==
  IF TruthyBody(body) /\ TruthyBody(DataOf(body)) THEN DataOf(body)
  ELSE IF TruthyBody(body) /\ body.type = "array" THEN body
  ELSE IF TruthyBody(body) THEN ArrayOf(body)
  ELSE JsArray(<<>>)

\* the body the backend sends for a list of requests, in a shape
Shapes == {"wrapped", "array", "object", "empty", "wrappedObject", "wrappedNothing"}

ShapesOf(list) ==
  {"wrapped", "array"}
    \cup (IF Len(list) = 1 THEN {"object", "wrappedObject"} ELSE {})
    \cup (IF Len(list) = 0 THEN {"empty", "wrappedNothing"} ELSE {})

Shaped(list, shape) ==
  IF shape = "wrapped" THEN Body("wrapper", "array", list)
  ELSE IF shape = "array" THEN JsArray(list)
  ELSE IF shape = "object" THEN Body("object", "", list)
  ELSE IF shape = "wrappedObject" THEN Body("wrapper", "object", list)
  ELSE IF shape = "wrappedNothing" THEN Body("wrapper", "undefined", <<>>)
  ELSE JsUndefined

Received(op, userRequests) == [op |-> op, userRequests |-> userRequests]

ShapeInit ==
  /\ ViewInit
  /\ user = NoUser
  /\ \E n \in 0..MaxPage :
       \E page \in [1..n -> {Undef, "pending", "confirmed"} \X PageOwn \X RideShapes] :
         LET list == [i \in 1..n |->
                       Request(RequestName(i), Undef, page[i][1], page[i][2],
                               PageRide(i, page[i][3]), 1)]
         IN \E shape \in ShapesOf(list) :
              arg = [payload |-> list, shape |-> shape, body |-> Shaped(list, shape)]
  /\ result = Received("none", JsUndefined)

ReceiveFetch ==
  /\ result.op = "none"
  /\ result' = Received("fetch", fetchUnwrap(arg.body))
  /\ UNCHANGED <<view, tasks, outputs, arg>>

ReceiveRefresh ==
  /\ result.op = "none"
  /\ result' = Received("refresh", refreshUnwrap(arg.body))
  /\ UNCHANGED <<view, tasks, outputs, arg>>

NextShape == ReceiveFetch \/ ReceiveRefresh

SpecShape == ShapeInit /\ [][NextShape]_vars

(***************************************************************************)
(* The ride detail view (RideDetail).  arg holds the session user and the  *)
(* ride the backend returns for the id of the route; result holds the      *)
(* state of the view: loading, error, ride, requestStatus, requestLoading  *)
(* and the call it awaits.  null and undefined are both falsy and the view *)
(* reads requestStatus by its truthiness and by === 'pending' alone, so    *)
(* null is written undefined.                                              *)
(***************************************************************************)
\* ride.availableSeats, ride.seatsAvailable: absent or a number
NoSeats == [defined |-> FALSE, n |-> 0]
SeatCount(n) == [defined |-> TRUE, n |-> n]

\* seats > 0 : false for an absent field
Positive(seats) == seats.defined /\ seats.n > 0

\* rideData: listed is Array.isArray(rideData.passengers)
DetailRide(creator, st, availableSeats, seatsAvailable, listed, passengers) ==
  [present |-> TRUE, creator |-> creator, status |-> st,
   availableSeats |-> availableSeats, seatsAvailable |-> seatsAvailable,
   listed |-> listed, passengers |-> passengers]

\* useState(null) of ride
NullRide ==
  [present |-> FALSE, creator |-> NoRef, status |-> Undef,
   availableSeats |-> NoSeats, seatsAvailable |-> NoSeats,
   listed |-> FALSE, passengers |-> <<>>]

\* typeof ride.creator === 'string' ? ride.creator : (ride.creator?.id || ride.creator?._id)
driverId(ride) ==
  IF ride.creator.kind = "string" THEN ride.creator.id
  ELSE Or(PropId(ride.creator), Prop_Id(ride.creator))

isCurrentUserDriver(u, ride) ==
  /\ u.loggedIn
  /\ ride.present
  /\ driverId(ride) = u.id

isRideCompleted(ride) == ride.present /\ ride.status = "completed"
isRideCancelled(ride) == ride.present /\ ride.status = "cancelled"

canRequestRide(u, ride, requestStatus) ==
  /\ u.loggedIn
  /\ ~isCurrentUserDriver(u, ride)
  /\ ~Truthy(requestStatus)
  /\ ~isRideCancelled(ride)
  /\ ~isRideCompleted(ride)
  /\ ride.present
  /\ (Positive(ride.availableSeats) \/ Positive(ride.seatsAvailable))

\* the action buttons of the loaded ride
actionButtons(u, ride, requestStatus) ==
  IF isCurrentUserDriver(u, ride) THEN "manage"
  ELSE IF Truthy(requestStatus) THEN "status"
  ELSE IF canRequestRide(u, ride, requestStatus) THEN "request"
  ELSE IF ~u.loggedIn THEN "login"
  ELSE IF isRideCancelled(ride) \/ isRideCompleted(ride) THEN "unavailable"
  ELSE "full"

\* what the view shows
detailShows(v, u) ==
  IF v.loading THEN "loading"
  ELSE IF v.error THEN "error"
  ELSE IF v.ride.present THEN actionButtons(u, v.ride, v.requestStatus)
  ELSE "nothing"

\* the predicate of rideData.passengers.find(...)
currentUserRequest(passenger, u) ==
  IF passenger.user.kind = "string" THEN passenger.user.id = u.id
  ELSE IF passenger.user.kind = "object"
       THEN Or(passenger.user.id, passenger.user._id) = u.id
       ELSE FALSE

\* requestStatus after fetchRideDetails has read rideData
fetchedRequestStatus(rideData, u, requestStatus) ==
  LET T(passenger) == currentUserRequest(passenger, u) IN
  IF u.loggedIn /\ rideData.listed
  THEN FoundStatus(rideData.passengers, T)
  ELSE requestStatus

DetailView(op, isLoading, err, ride, requestStatus, requestLoading, awaits) ==
  [op |-> op, loading |-> isLoading, error |-> err, ride |-> ride,
   requestStatus |-> requestStatus, requestLoading |-> requestLoading,
   awaits |-> awaits]

DetailUsers ==
  {NoUser,
   [loggedIn |-> TRUE, id |-> "u9", _id |-> Undef],
   [loggedIn |-> TRUE, id |-> Undef, _id |-> "u9"],
   [loggedIn |-> TRUE, id |-> "u9", _id |-> "u9"]}

Creators == {NoRef, StrRef("u9"), StrRef("u7"), ObjRef("u9", Undef), ObjRef(Undef, "u9")}

RideStatuses == {"active", "cancelled", "completed"}

Seats == {NoSeats, SeatCount(0), SeatCount(1)}

DetailPassengers ==
  {<<>>} \cup
  {<<Passenger(ref, st)>> : ref \in {StrRef("u9"), ObjRef(Undef, "u9"), StrRef("u7")},
                            st \in {"pending", "confirmed"}}

\* the first render of RideDetail, with the effect of [id] run: fetchRideDetails awaits
DetailInit ==
  /\ ViewInit
  /\ user = NoUser
  /\ \E u \in DetailUsers, creator \in Creators, st \in RideStatuses,
        availableSeats \in Seats, seatsAvailable \in Seats,
        listed \in BOOLEAN, passengers \in DetailPassengers :
       /\ (~listed => passengers = <<>>)
       /\ arg = [user |-> u,
                 ride |-> DetailRide(creator, st, availableSeats, seatsAvailable,
                                     listed, passengers)]
  /\ result = DetailView("fetchRideDetails", TRUE, FALSE, NullRide, Undef, FALSE, "ride")

FetchRideDetailsSucceeds ==
  /\ result.awaits = "ride"
  /\ result' = [result EXCEPT
                  !.op = "fetchRideDetails.then",
                  !.ride = arg.ride,
                  !.requestStatus = fetchedRequestStatus(arg.ride, arg.user, result.requestStatus),
                  !.loading = FALSE,
                  !.awaits = "none"]
  /\ UNCHANGED <<view, tasks, outputs, arg>>

FetchRideDetailsFails ==
  /\ result.awaits = "ride"
  /\ result' = [result EXCEPT
                  !.op = "fetchRideDetails.catch",
                  !.error = TRUE,
                  !.loading = FALSE,
                  !.awaits = "none"]
  /\ UNCHANGED <<view, tasks, outputs, arg>>

\* onClick={handleRequestRide} of Request This Ride
ClickRequestRide ==
  /\ detailShows(result, arg.user) = "request"
  /\ ~result.requestLoading
  /\ result' = [result EXCEPT
                  !.op = "handleRequestRide",
                  !.requestLoading = TRUE,
                  !.awaits = "request"]
  /\ UNCHANGED <<view, tasks, outputs, arg>>

\* the call succeeded: requestStatus pending, then fetchRideDetails again
RequestRideSucceeds ==
  /\ result.awaits = "request"
  /\ result' = [result EXCEPT
                  !.op = "handleRequestRide.then",
                  !.requestStatus = "pending",
                  !.loading = TRUE,
                  !.error = FALSE,
                  !.requestLoading = FALSE,
                  !.awaits = "ride"]
  /\ UNCHANGED <<view, tasks, outputs, arg>>

RequestRideFails ==
  /\ result.awaits = "request"
  /\ result' = [result EXCEPT
                  !.op = "handleRequestRide.catch",
                  !.requestLoading = FALSE,
                  !.awaits = "none"]
  /\ UNCHANGED <<view, tasks, outputs, arg>>

\* onClick={handleCancelRequest} of Cancel Request
ClickCancelRequest ==
  /\ detailShows(result, arg.user) = "status"
  /\ result.requestStatus = "pending"
  /\ ~result.requestLoading
  /\ result' = [result EXCEPT
                  !.op = "handleCancelRequest",
                  !.requestLoading = TRUE,
                  !.awaits = "cancel"]
  /\ UNCHANGED <<view, tasks, outputs, arg>>

\* the call succeeded: requestStatus null, then fetchRideDetails again
CancelRequestSucceeds ==
  /\ result.awaits = "cancel"
  /\ result' = [result EXCEPT
                  !.op = "handleCancelRequest.then",
                  !.requestStatus = Undef,
                  !.loading = TRUE,
                  !.error = FALSE,
                  !.requestLoading = FALSE,
                  !.awaits = "ride"]
  /\ UNCHANGED <<view, tasks, outputs, arg>>

CancelRequestFails ==
  /\ result.awaits = "cancel"
  /\ result' = [result EXCEPT
                  !.op = "handleCancelRequest.catch",
                  !.requestLoading = FALSE,
                  !.awaits = "none"]
  /\ UNCHANGED <<view, tasks, outputs, arg>>

NextDetail ==
  \/ FetchRideDetailsSucceeds
  \/ FetchRideDetailsFails
  \/ ClickRequestRide
  \/ RequestRideSucceeds
  \/ RequestRideFails
  \/ ClickCancelRequest
  \/ CancelRequestSucceeds
  \/ CancelRequestFails

SpecDetail == DetailInit /\ [][NextDetail]_vars

(***************************************************************************)
(* Properties.                                                             *)
(***************************************************************************)
Applied == result.op \in {"fetch", "refresh"}

\* C1: whenever the payload carries a non-empty userRequestStatus, the request
\* the normalizer of fetchRideRequests or of refreshRideRequests returns has
\* that value as its status, whatever the direct status and the passenger
\* entries of the current user say.
C1_PreResolvedWins ==
  (Applied /\ Truthy(arg.request.userRequestStatus))
    => result.out.status = arg.request.userRequestStatus

\* a payload with userRequestStatus confirmed, status pending and a passenger
\* entry of the user that says pending, normalized by refreshRideRequests
C1_Witness ==
  /\ result.op = "refresh"
  /\ arg.request.userRequestStatus = "confirmed"
  /\ arg.request.status = "pending"
  /\ OwnStatus(arg.request, arg.user) = "pending"
  /\ result.out.status = "confirmed"

\* the id a user reference stands for, in each of its three shapes
ReferredId(ref) ==
  IF ref.kind = "string" THEN ref.id
  ELSE IF ref.kind = "object" THEN Or(ref.id, ref._id) ELSE Undef

\* the reference names the session user, by user.id or by user._id
RefersTo(ref, u) ==
  /\ Truthy(ReferredId(ref))
  /\ ReferredId(ref) \in {u.id, u._id}

\* the request with its own passenger list moved under its embedded ride
MovedUnderRide(request) ==
  [request EXCEPT !.passengers = <<>>, !.ride.passengers = request.passengers]

\* C2: a request whose own passenger list holds an entry of the session user
\* (in any reference shape, the user known by id or by _id, every entry of the
\* list naming its user) gets the same status as the request that holds the
\* same list under its embedded ride.
C2_SameStatusOwnOrNested ==
  (/\ Applied
   /\ arg.request.ride.present
   /\ arg.request.ride.passengers = <<>>
   /\ \A i \in 1..Len(arg.request.passengers) :
        Truthy(ReferredId(arg.request.passengers[i].user))
   /\ \E i \in 1..Len(arg.request.passengers) :
        RefersTo(arg.request.passengers[i].user, arg.user))
    => result.status =
         (IF result.op = "fetch"
          THEN fetchStatus(MovedUnderRide(arg.request), arg.user)
          ELSE refreshStatus(MovedUnderRide(arg.request), arg.user))

Terminal == {"confirmed", "rejected", "cancelled"}

HasRequest(list, requestId) ==
  \E i \in 1..Len(list) : requestKey(list[i]) = requestId

\* the status the list shows for a request id, Undef when it holds none
StatusOf(list, requestId) ==
  IF HasRequest(list, requestId)
  THEN list[CHOOSE i \in 1..Len(list) : requestKey(list[i]) = requestId].status
  ELSE Undef

\* the payload has the request with no pre-resolved status, a direct status that
\* is absent or pending, and no passenger entry with a status for the user
AmbiguousFor(payload, requestId, u) ==
  \E i \in 1..Len(payload) :
    /\ requestKey(payload[i]) = requestId
    /\ ~Truthy(payload[i].userRequestStatus)
    /\ payload[i].status \in {Undef, "", "pending"}
    /\ ~Truthy(OwnStatus(payload[i], u))
    /\ ~Truthy(RideStatus(payload[i], u))

\* C3: once the list shows a terminal status for a request, a refresh whose
\* payload is ambiguous for that request does not put it back to pending.
C3_NoRegression ==
  [][\A requestId \in RequestIds :
       (/\ StatusOf(requests, requestId) \in Terminal
        /\ last'.op = "refreshRideRequests.then"
        /\ AmbiguousFor(last'.arg, requestId, user))
         => StatusOf(requests', requestId) # "pending"]_vars

\* the (id, status) pairs of a list, as a set
PairSet(list) == {<<requestKey(list[i]), list[i].status>> : i \in 1..Len(list)}

StatusUpdated == <<Toast("success", "Ride request status updated", Undef)>>

\* C4: a refresh shows the "status updated" toast exactly when the set of
\* (id, status) pairs of the new list differs from that of the list held
\* when the response arrives.
C4_NotifiesIffPairsDiffer ==
  [][last'.op = "refreshRideRequests.then"
       => /\ emitted' \in {<<>>, StatusUpdated}
          /\ (emitted' = StatusUpdated) <=> (PairSet(requests') # PairSet(requests))]_vars

BulkInFlight ==
  \E k \in 1..Len(flights) : flights[k].kind \in {"fetch", "refresh"}

\* C5: a targeted re-fetch that runs from its 100 ms timeout while a load or a
\* refresh of the list is in flight issues no get-ride-by-id call.
C5_SingleRefetchExcluded ==
  [][(last'.op = "singleRefreshTimeout" /\ BulkInFlight) => calls' = <<>>]_vars

LoadInFlight == \E k \in 1..Len(flights) : flights[k].kind = "fetch"

ListCall == <<Call("getUserRequests", Undef)>>

\* C6: with a logged-in user the mount fetches the list, and so does every tick
\* of the 3 s timeout and of the 30 s interval that fires while no load is in
\* flight.
C6_TimersFetch ==
  /\ (last.op = "mount" /\ user.loggedIn) => calls = ListCall
  /\ (/\ last.op \in {"initialRefreshTimeout", "refreshInterval"}
      /\ user.loggedIn
      /\ ~loading
      /\ ~LoadInFlight)
       => calls = ListCall

RECURSIVE Without(_, _)
Without(list, requestId) ==
  IF list = <<>> THEN <<>>
  ELSE IF requestKey(Head(list)) = requestId THEN Without(Tail(list), requestId)
  ELSE <<Head(list)>> \o Without(Tail(list), requestId)

CancelledToast == <<Toast("success", "Ride request cancelled successfully", Undef)>>

\* C7: when the cancel of request X succeeds, the list loses the entry of X and
\* nothing else, the other entries keep their fields and their order, and the
\* success toast is shown.
C7_CancelRemovesOnlyThatEntry ==
  [][last'.op = "handleCancelRequest.then"
       => /\ ~HasRequest(requests', last'.arg)
          /\ requests' = Without(requests, last'.arg)
          /\ emitted' = CancelledToast]_vars

\* the cancel of r1 succeeded while the list also held r2: r2 is what is left
C7_Witness ==
  /\ last.op = "handleCancelRequest.then"
  /\ last.arg = "r1"
  /\ Len(requests) = 1
  /\ requests[1].id = "r2"
  /\ emitted = CancelledToast

\* C8: when the cancel of request X fails, the list is unchanged, exactly one
\* error toast is shown, with the message of the backend when it sent one and
\* the generic message otherwise, and actionLoading is false.
C8_CancelFailureKeepsList ==
  [][last'.op = "handleCancelRequest.catch"
       => /\ requests' = requests
          /\ Len(emitted') = 1
          /\ emitted'[1].kind = "error"
          /\ emitted'[1].text =
               (IF last'.arg.err.response /\ Truthy(last'.arg.err.message)
                THEN last'.arg.err.message
                ELSE "Failed to cancel ride request.")
          /\ ~actionLoading']_vars

\* the backend rejected the cancel with "Too late to cancel": the request is
\* still listed and that message is shown
C8_Witness ==
  /\ last.op = "handleCancelRequest.catch"
  /\ last.arg.err.message = "Too late to cancel"
  /\ HasRequest(requests, last.arg.requestId)
  /\ emitted = <<Toast("error", "Too late to cancel", Undef)>>
  /\ ~actionLoading

\* C9: a cancel-request call is issued only by a confirmed handleCancelRequest,
\* for the request it was confirmed for; a declined one changes neither the
\* list nor actionLoading, shows nothing and calls nothing.
C9_CancelOnlyWhenConfirmed ==
  [][/\ \A i \in 1..Len(calls') :
          calls'[i].api = "cancelRequest"
            => /\ last'.op = "handleCancelRequest"
               /\ last'.arg.confirmed
               /\ last'.arg.requestId = calls'[i].arg
     /\ (last'.op = "handleCancelRequest" /\ ~last'.arg.confirmed)
          => /\ requests' = requests
             /\ actionLoading' = actionLoading
             /\ flights' = flights
             /\ emitted' = <<>>
             /\ calls' = <<>>]_vars

\* the user declined the confirmation of a listed pending request
C9_Witness ==
  /\ last.op = "handleCancelRequest"
  /\ ~last.arg.confirmed
  /\ StatusOf(requests, last.arg.requestId) = "pending"
  /\ calls = <<>>
  /\ ~actionLoading

\* creation time, else departure time (departureTime, else time), else epoch zero
ResolvedRecency(r) ==
  IF r.createdAt # 0 THEN r.createdAt
  ELSE IF r.departureTime # 0 THEN r.departureTime
  ELSE IF r.time # 0 THEN r.time ELSE 0

\* C10: the list a fetch or a refresh stores holds the requests of the payload,
\* ordered so that the resolved recency never increases from one entry to the
\* next, whatever the order of the payload.
C10_SortedByRecency ==
  (result.op \in {"fetch", "refresh"})
    => /\ Len(result.out) = Len(arg.payload)
       /\ \A i \in 1..Len(arg.payload) : \E j \in 1..Len(result.out) :
            /\ result.out[j].id = arg.payload[i].id
            /\ ResolvedRecency(result.out[j]) = ResolvedRecency(arg.payload[i])
       /\ \A j \in 1..(Len(result.out) - 1) :
            ResolvedRecency(result.out[j]) >= ResolvedRecency(result.out[j + 1])

\* the backend returned the oldest first, one date a departure time, one absent
C10_Witness ==
  /\ result.op = "fetch"
  /\ Len(arg.payload) = 3
  /\ ResolvedRecency(arg.payload[1]) = 0
  /\ arg.payload[2].createdAt = 0 /\ arg.payload[2].departureTime = 1
  /\ arg.payload[3].createdAt = 2
  /\ result.out[1].id = "r3" /\ result.out[2].id = "r2" /\ result.out[3].id = "r1"

\* steps 1 to 4 give the request no status
Unresolved(request, u) ==
  /\ ~Truthy(request.userRequestStatus)
  /\ request.status \in {Undef, "", "pending"}
  /\ ~Truthy(OwnStatus(request, u))
  /\ ~Truthy(RideStatus(request, u))

\* the id of the embedded ride, by id or by _id
RideIdOf(request) ==
  IF ~request.ride.present THEN Undef
  ELSE IF Truthy(request.ride.id) THEN request.ride.id ELSE request.ride._id

Occurrences(s, x) == Cardinality({k \in 1..Len(s) : s[k] = x})

WellFormed(list) ==
  /\ \A i \in 1..Len(list) : Truthy(ReferredId(list[i].user))
  /\ \A i, j \in 1..Len(list) :
       ReferredId(list[i].user) = ReferredId(list[j].user) => i = j

\* the status the list holds for the user, Undef when it holds none
StatusFor(list, u) ==
  IF \E i \in 1..Len(list) : RefersTo(list[i].user, u)
  THEN list[CHOOSE i \in 1..Len(list) : RefersTo(list[i].user, u)].status
  ELSE Undef

\* C12: with no pre-resolved status and a direct status that is absent or
\* pending, the status the own passenger list holds for the session user is the
\* result, whatever the list of the embedded ride says; when the own list holds
\* none, the status the list of the embedded ride holds for the user is.
C12_OwnListThenRideList ==
  (/\ Applied
   /\ ~Truthy(arg.request.userRequestStatus)
   /\ arg.request.status \in {Undef, "", "pending"}
   /\ WellFormed(arg.request.passengers)
   /\ WellFormed(arg.request.ride.passengers))
    => LET own == StatusFor(arg.request.passengers, arg.user)
           nested == StatusFor(arg.request.ride.passengers, arg.user)
       IN /\ Truthy(own) => result.status = own
          /\ (~Truthy(own) /\ Truthy(nested)) => result.status = nested

\* C13: with no pre-resolved status, a direct status that is present and is not
\* pending is the status of the result, whatever the passenger lists hold for
\* the user, and the normalizer sets no timeout for a targeted re-fetch.
C13_DirectStatusVerbatim ==
  (/\ Applied
   /\ ~Truthy(arg.request.userRequestStatus)
   /\ Truthy(arg.request.status)
   /\ arg.request.status # "pending")
    => /\ result.status = arg.request.status
       /\ result.out.status = arg.request.status
       /\ result.schedule = Undef

\* a rejected request with a ride id whose own passenger list says confirmed
\* for the user, normalized by refreshRideRequests
C13_Witness ==
  /\ result.op = "refresh"
  /\ arg.request.userRequestStatus = Undef
  /\ arg.request.status = "rejected"
  /\ StatusFor(arg.request.passengers, arg.user) = "confirmed"
  /\ Truthy(RideIdOf(arg.request))
  /\ result.status = "rejected"
  /\ result.schedule = Undef

TimerCallbacks == {"initialRefreshTimeout", "refreshInterval", "singleRefreshTimeout"}

\* C14: once the view is unmounted no callback of its timers runs (the 3 s
\* timeout, the 30 s interval, a 100 ms timeout of a targeted re-fetch) and the
\* state of the view is not updated.
C14_NothingRunsAfterUnmount ==
  [][mounted = "unmounted"
       => /\ last'.op \notin TimerCallbacks
          /\ UNCHANGED <<requests, loading, error, actionLoading, refreshing>>]_vars

LoadDone == {"fetchRideRequests.then", "fetchRideRequests.catch"}

\* C15: the mount leaves the view loading; a load that completes, with a
\* response or with an error, leaves it not loading; a failed load sets the
\* error, so that Try Again is offered; Try Again makes the view loading again
\* with the error cleared, and a load that succeeds leaves the error cleared.
\* A logged-in view that is loading has a load in flight.
C15_LoadingCycle ==
  [][/\ last'.op = "mount" => loading'
     /\ last'.op \in LoadDone => ~loading'
     /\ last'.op = "fetchRideRequests.catch" => (error' # NoError /\ ShowsError')
     /\ last'.op = "tryAgain" => (loading' /\ error' = NoError)
     /\ last'.op = "fetchRideRequests.then" => error' = NoError
     /\ (loading' /\ user'.loggedIn /\ Live') => LoadInFlight']_vars

\* Try Again was clicked on the error of a failed load: loading, error cleared
C15_Witness ==
  /\ last.op = "tryAgain"
  /\ loading
  /\ error = NoError
  /\ LoadInFlight

Suppressed ==
  {"initialRefreshTimeout", "refreshInterval", "forceRefreshAllStatuses",
   "forceRefreshAllStatuses.next"}

\* C16: while the view is loading and its load is in flight, a tick of the 3 s
\* timeout or of the 30 s interval and a step of Force Update issue no call to
\* the backend, whoever started the load.
C16_SuppressedWhileLoading ==
  [][(loading /\ LoadInFlight /\ last'.op \in Suppressed) => calls' = <<>>]_vars

\* the entries of the list that are requests for the ride
EntriesOf(list, rideId) == {i \in 1..Len(list) : RideIdOf(list[i]) = rideId}

SilentFailures == {"refreshSingleRideStatus.catch", "refreshRideRequests.catch"}

\* C18: a targeted re-fetch or a silent refresh that fails leaves the list and
\* the error of the page as they were and shows no error toast; after a
\* failed silent refresh refreshing is false.
C18_BackgroundFailuresSilent ==
  [][last'.op \in SilentFailures
       => /\ requests' = requests
          /\ error' = error
          /\ \A k \in 1..Len(emitted') : emitted'[k].kind # "error"
          /\ last'.op = "refreshRideRequests.catch" => ~refreshing']_vars

\* a refresh of a listed page has just failed
C18_Witness ==
  /\ last.op = "refreshRideRequests.catch"
  /\ requests # <<>>
  /\ error = NoError
  /\ ~refreshing

\* the responses that store statuses
FetchDone ==
  {"fetchRideRequests.then", "refreshRideRequests.then", "refreshSingleRideStatus.then"}

\* the step stores the response of the call at position k of the calls in flight
Completes(k) ==
  /\ last'.op \in FetchDone
  /\ flights[k].kind \in Fetches
  /\ Len(flights') = Len(flights) - 1
  /\ \A i \in 1..Len(flights') :
       IF i < k THEN [flights'[i] EXCEPT !.overtaken = {}] = [flights[i] EXCEPT !.overtaken = {}]
       ELSE flights'[i] = flights[i + 1]

\* the entry of the request is displayed with the same status after the step
KeepsStatus(req) ==
  \A j \in 1..Len(requests') : requests'[j].id = req.id => requests'[j].status = req.status

\* C19: the response of a call does not change the displayed status of a
\* request for which a call issued after it has already delivered: the list
\* shows what the most recently issued successful fetch obtained.
C19_OlderNeverOverwrites ==
  [][\A k \in DOMAIN flights :
       Completes(k)
         => \A i \in 1..Len(requests) :
              RideIdOf(requests[i]) \in flights[k].overtaken => KeepsStatus(requests[i])]_vars

\* C20: a pass leaves the payload it was given as it was, and every request of
\* the payload appears once in the result with the fields it had, its status
\* set to the status resolved for it.
C20_InputNotMutated ==
  [][Applied'
       => /\ arg' = arg
          /\ Len(result'.out) = Len(arg.payload)
          /\ \A i \in 1..Len(arg.payload) :
               \E j \in 1..Len(result'.out) :
                 /\ result'.out[j] = [arg.payload[i] EXCEPT !.status = result'.out[j].status]
                 /\ Truthy(result'.out[j].status)]_vars

\* a page of two requests, the first without a status and with an entry of
\* the user that says confirmed: the result has it as confirmed, entry kept
C20_Witness ==
  /\ result.op = "fetch"
  /\ Len(arg.payload) = 2
  /\ arg.payload[1].status = Undef
  /\ arg.payload[1].passengers = <<Passenger(StrRef("u9"), "confirmed")>>
  /\ \E j \in 1..Len(result.out) :
       /\ result.out[j].id = arg.payload[1].id
       /\ result.out[j].status = "confirmed"
       /\ result.out[j].passengers = arg.payload[1].passengers

\* C21: normalizing the request a pass returned gives the same request: the
\* same status and the same other fields.
C21_Idempotent ==
  [][result'.op \in Again
       => /\ result'.out = result.out
          /\ result'.status = result.out.status]_vars

\* a request without a status that the first pass resolved to confirmed from
\* the passenger entry of the user, normalized a second time
C21_Witness ==
  /\ result.op = "fetch.again"
  /\ arg.request.userRequestStatus = Undef
  /\ arg.request.status = Undef
  /\ StatusFor(arg.request.passengers, arg.user) = "confirmed"
  /\ result.out.status = "confirmed"

\* the shapes of a response: the list under a data field, the list itself,
\* one request object, no body
ListShapes == {"wrapped", "array", "object", "empty"}

\* C22: whichever of these shapes the response has, wrapped under data, an
\* array, or a single object, both functions take the same list of requests
\* from it, and a response without a body gives the empty list.
C22_ShapesAccepted ==
  (Applied /\ arg.shape \in ListShapes) => result.userRequests = JsArray(arg.payload)

\* a single request object received by the load became a list of one request
C22_Witness ==
  /\ result.op = "fetch"
  /\ arg.shape = "object"
  /\ arg.body.type = "object"
  /\ result.userRequests.type = "array"
  /\ Len(result.userRequests.items) = 1
  /\ result.userRequests.items[1].id = "r1"

\* what runs refreshRideRequests, and its completions
RefreshTriggers == {"refresh", "initialRefreshTimeout", "refreshInterval"}
RefreshDone == {"refreshRideRequests.then", "refreshRideRequests.catch"}

\* C23: a refresh, clicked or run by a timer, leaves loading and the error of
\* the page as they are from its start to its completion; its start makes
\* one list-my-requests call and sets refreshing (or does nothing), and its
\* completion makes no call, clears refreshing and changes the list at most.
C23_RefreshIsSilent ==
  [][last'.op \in RefreshTriggers \cup RefreshDone
       => /\ loading' = loading
          /\ error' = error
          /\ actionLoading' = actionLoading
          /\ last'.op \in RefreshTriggers
               => /\ requests' = requests
                  /\ \/ calls' = <<>> /\ refreshing' = refreshing
                     \/ calls' = <<Call("getUserRequests", Undef)>> /\ refreshing'
          /\ last'.op \in RefreshDone => (calls' = <<>> /\ ~refreshing')
          /\ last'.op = "refreshRideRequests.catch" => requests' = requests]_vars

\* a clicked refresh has completed and changed a status of the list
C23_Witness ==
  /\ last.op = "refreshRideRequests.then"
  /\ emitted = <<Toast("success", "Ride request status updated", Undef)>>
  /\ requests # <<>>
  /\ ~refreshing
  /\ ~loading
  /\ error = NoError

\* the call for entry i of the copy of a Force Update
ForceCall(updatedRequests, i) == <<Call("getRideById", forceRideId(updatedRequests[i]))>>

\* the step moves the Force Update at position k from entry i to entry i + 1
Advances(k) ==
  /\ flights[k].kind = "force"
  /\ Len(flights') = Len(flights)
  /\ \A j \in DOMAIN flights : j # k => flights'[j] = flights[j]
  /\ flights'[k].kind = "force"
  /\ flights'[k].arg.i = flights[k].arg.i + 1
  /\ calls' = ForceCall(flights'[k].arg.updatedRequests, flights'[k].arg.i)

\* the step ends the Force Update at position k, which awaited its last entry
Finishes(k) ==
  /\ flights[k].kind = "force"
  /\ flights[k].arg.i = Len(flights[k].arg.updatedRequests)
  /\ flights' = RemoveAt(flights, k)
  /\ calls' = <<>>

\* C24: a Force Update asks for the rides of its list one at a time and in the
\* order of the list: the click issues the call for the first entry, the
\* completion of the call for entry i (a response or a failure) issues the
\* call for entry i + 1 and no other, and the run ends, without a further
\* call, at the completion of the call for the last entry.
C24_ForceOneAtATime ==
  [][/\ last'.op = "forceRefreshAllStatuses"
          => /\ flights' = Append(flights, flights'[Len(flights')])
             /\ flights'[Len(flights')].kind = "force"
             /\ flights'[Len(flights')].arg.i = 1
             /\ flights'[Len(flights')].arg.updatedRequests = requests
             /\ calls' = ForceCall(requests, 1)
     /\ last'.op = "forceRefreshAllStatuses.next" => \E k \in DOMAIN flights : Advances(k)
     /\ last'.op = "forceRefreshAllStatuses.done" => \E k \in DOMAIN flights : Finishes(k)]_vars

\* a Force Update over a list of two requests has settled its first call and
\* awaits the call for the ride of the second entry
C24_Witness ==
  /\ last.op = "forceRefreshAllStatuses.next"
  /\ calls = <<Call("getRideById", "k2")>>
  /\ \E k \in DOMAIN flights :
       /\ flights[k].kind = "force"
       /\ flights[k].arg.i = 2
       /\ Len(flights[k].arg.updatedRequests) = 2
       /\ forceRideId(flights[k].arg.updatedRequests[1]) = "k1"

ForceSettled == {"forceRefreshAllStatuses.next", "forceRefreshAllStatuses.done"}

\* C25: when a call of a Force Update fails, no error toast is shown and the
\* copy is left as it is, so the entry keeps its status; when entries remain
\* the call for the next entry is issued, and at the end of the list the copy,
\* with the changes found for other entries, is stored if any status changed,
\* and refreshing is false.
C25_ForceFailureSkipsEntry ==
  [][(last'.op \in ForceSettled /\ last'.arg.failed)
       => /\ \A e \in 1..Len(emitted') : emitted'[e].kind # "error"
          /\ \E k \in DOMAIN flights :
               /\ flights[k].kind = "force"
               /\ IF flights[k].arg.i < Len(flights[k].arg.updatedRequests)
                  THEN /\ Advances(k)
                       /\ flights'[k].arg.updatedRequests = flights[k].arg.updatedRequests
                       /\ flights'[k].arg.statusChanged = flights[k].arg.statusChanged
                       /\ requests' = requests
                  ELSE /\ Finishes(k)
                       /\ ~refreshing'
                       /\ requests' = IF flights[k].arg.statusChanged
                                      THEN flights[k].arg.updatedRequests
                                      ELSE requests]_vars

\* a Force Update over two requests ended with a failed call, and the status
\* it had found for the other entry is in the list
C25_Witness ==
  /\ last.op = "forceRefreshAllStatuses.done"
  /\ last.arg.failed
  /\ Len(requests) = 2
  /\ requests = last.arg.what
  /\ requests[1].status = "rejected"
  /\ emitted[1] = Toast("success", "Ride statuses updated successfully", Undef)
  /\ ~refreshing

\* a Force Update is awaiting one of its calls
ForceInFlight == \E k \in DOMAIN flights : flights[k].kind = "force"

\* C26: when a cancellation has just succeeded while a Force Update was
\* running, the list after the end of that Force Update does not hold the
\* cancelled request.
C26_CancelledStaysRemoved ==
  [][(/\ last.op = "handleCancelRequest.then"
      /\ ForceInFlight
      /\ last'.op = "forceRefreshAllStatuses.done")
       => \A j \in 1..Len(requests') : requestKey(requests'[j]) # last.arg]_vars

\* a refresh of the list or a Force Update is awaiting a response
RefreshOrForceInFlight ==
  \E k \in DOMAIN flights : flights[k].kind \in {"refresh", "force"}

\* C27: refreshing is true exactly while a refresh of the list or a Force
\* Update is in flight.
C27_RefreshingIffInFlight == refreshing <=> RefreshOrForceInFlight

\* no entry of the list has a user reference that resolves to an id of the user
NoEntryOf(list, u) == \A i \in 1..Len(list) : ~RefersTo(list[i].user, u)

\* C28: when no passenger entry of the request or of its embedded ride has a
\* user reference that resolves to a defined id of the session user, no entry
\* is taken for the user: a request without a pre-resolved status and with a
\* direct status that is absent or pending is left pending.
C28_OnlyDefinedIdsMatch ==
  (/\ Applied
   /\ ~Truthy(arg.request.userRequestStatus)
   /\ arg.request.status \in {Undef, "pending"}
   /\ NoEntryOf(arg.request.passengers, arg.user)
   /\ NoEntryOf(arg.request.ride.passengers, arg.user))
    => result.status = "pending"

\* the cancel calls awaiting a response
CancelsInFlight(fl) == {k \in DOMAIN fl : fl[k].kind = "cancel"}

\* the step issues a cancel call
IssuesCancel == \E c \in 1..Len(calls') : calls'[c].api = "cancelRequest"

C30_RequestOfferedOnlyWhenAllowed ==
  detailShows(result, arg.user) = "request" =>
    /\ arg.user.loggedIn
    /\ ~RefersTo(result.ride.creator, arg.user)
    /\ ~Truthy(result.requestStatus)
    /\ result.ride.status \notin {"cancelled", "completed"}
    /\ (Positive(result.ride.availableSeats) \/ Positive(result.ride.seatsAvailable))

====
